---------------------------- MODULE Spec2Model ----------------------------
(***************************************************************************)
(* A model of the stock_simulation backend core:                           *)
(*   - backend/app/backtest.py    safe_backtest                            *)
(*   - backend/app/indicators.py  compute_all_indicators and its helpers   *)
(*                                                                         *)
(* Part I models safe_backtest as a state machine over the bars of the     *)
(* data frame (specification Spec).  Part II models the indicator engine,  *)
(* run side by side on two frames so that properties relating two inputs   *)
(* can be stated (specification SpecInd).                                  *)
(*                                                                         *)
(* Bars are numbered from 0 as in the code; TLA+ sequences are 1-based, so *)
(* the cell of bar k of a column col is col[k + 1].                        *)
(***************************************************************************)
EXTENDS Integers, Sequences, FiniteSets, TLC

(***************************************************************************)
(* Bounds of the model.                                                    *)
(***************************************************************************)
\* Largest number of bars of a data frame handed to safe_backtest.
MaxBars == 6

\* Prices of the frame handed to safe_backtest range over 1..MaxPrice.
MaxPrice == 2

\* Volume of a quiet bar and of a busy bar of that frame.
LowVolume == 1
HighVolume == 2

Prices == 1..MaxPrice
Levels == {0, 1}

(***************************************************************************)
(* Program constants.                                                      *)
(***************************************************************************)
InitialCash == 100000
VolWindow == 20
SampleSize == 10

(***************************************************************************)
(* Numbers.  A float cell of the frame is either missing (NaN) or a        *)
(* number; cash, position and the results are non-negative reals, modelled *)
(* exactly as normalised fractions <<numerator, denominator>>.             *)
(***************************************************************************)
NaN == [nan |-> TRUE, v |-> 0]
Num(x) == [nan |-> FALSE, v |-> x]

RECURSIVE GCD(_, _)
GCD(a, b) == IF b = 0 THEN a ELSE GCD(b, a % b)

Frac(a, b) == IF a = 0 /\ b # 0 THEN <<0, 1>>
              ELSE LET g == GCD(a, b) IN <<a \div g, b \div g>>
Zero == <<0, 1>>
FMul(x, k) == Frac(x[1] * k, x[2])
FDiv(x, k) == Frac(x[1], x[2] * k)
FAdd(x, y) == Frac(x[1] * y[2] + y[1] * x[2], x[2] * y[2])
FPos(x) == x[1] > 0
FLeq(x, y) == x[1] * y[2] <= y[1] * x[2]

(***************************************************************************)
(* State of one call of safe_backtest.                                     *)
(*                                                                         *)
(* The data frame is the input of the call.  Its volume column is fixed    *)
(* in the initial state (the rolling mean of line 7 reads a window of it). *)
(* The other cells are unconstrained inputs, each read by the code at most *)
(* once: the model draws the cells of bar i when the pass reaches bar i    *)
(* and open[i+1] when the loop body reads it, which yields the same        *)
(* behaviours as fixing the whole frame beforehand.                        *)
(***************************************************************************)
VARIABLES
    n,          \* len(df)
    volume,     \* df['volume'], bars 0..n-1
    signal,     \* df['signal'] for the bars determined so far
    open,       \* df['open'] cells the loop has read: bar |-> cell
    lastclose,  \* df['close'].iat[-1], once read
    i,          \* loop variable of the pass
    sig,        \* local sig of the loop body
    price,      \* local price of the loop body
    cash,
    position,
    trades,     \* list of <<side, timestamp, price>>
    pc,         \* "loop" while the pass runs, "done" after the return
    result,     \* the returned record
    \* compute_all_indicators, on a frame and on a second frame beside it
    bars,       \* the input frame: one record of high, low, close, volume per bar
    bars2,      \* the second input frame
    ind,        \* indicator columns attached to bars so far: name |-> column
    ind2,       \* the same for bars2
    step        \* the next statement of compute_all_indicators

btVars == <<n, volume, signal, open, lastclose, i, sig, price, cash, position,
            trades, pc, result>>
indVars == <<bars, bars2, ind, ind2, step>>
vars == <<btVars, indVars>>

None == "None"

\* A row of the indicator-extended frame, as far as lines 9-10 read it.
Rows == [MACD : Levels, MACD_signal : Levels, close : Prices, EMA_10 : Prices]

\* Cells an open can hold: missing, zero, or a positive price.
OpenCells == {NaN, Num(0)} \cup {Num(p) : p \in Prices}

\* The volume columns tried: quiet bars followed by busy bars.  A bar can
\* carry a buy signal only if its volume exceeds the trailing mean, so over
\* these columns the signal column ranges over every sequence the code can
\* derive (bar 0 never exceeds its own mean).
VolumeColumns(len) ==
    {[t \in 1..len |-> IF t <= c THEN LowVolume ELSE HighVolume] : c \in 0..len}

\* df.index: ascending and unique (ingest.py sorts and de-duplicates it);
\* a timestamp is represented by the position of its bar.
Index(k) == k

(***************************************************************************)
(* Lines 7-10: the signal column.                                          *)
(***************************************************************************)
RECURSIVE SumVol(_, _, _)
SumVol(vol, lo, hi) == IF lo > hi THEN 0 ELSE vol[hi + 1] + SumVol(vol, lo, hi - 1)

\* rolling(window=20, min_periods=1).mean() at bar t, as a fraction.
VolMean20(vol, t) ==
    LET lo == IF t - (VolWindow - 1) > 0 THEN t - (VolWindow - 1) ELSE 0
    IN  Frac(SumVol(vol, lo, t), t - lo + 1)

\* volume > vol_mean20
AboveMean(v, m) == v * m[2] > m[1]

SignalOf(row, vol, t) ==
    IF row.MACD < row.MACD_signal /\ row.close < row.EMA_10 THEN -1
    ELSE IF /\ row.MACD > row.MACD_signal
            /\ row.close > row.EMA_10
            /\ AboveMean(vol[t + 1], VolMean20(vol, t)) THEN 1
    ELSE 0

(***************************************************************************)
(* Lines 12-30: the pass.                                                  *)
(***************************************************************************)
\* Variants of the validity test: zero taken for a price; NaN not tested
\* (NaN <= 0 is false).
InvalidPrice_ZeroAccepted(p) == p.nan \/ p.v < 0
InvalidPrice_NaNAccepted(p) == ~p.nan /\ p.v <= 0

\* np.isnan(price) or price <= 0
InvalidPrice(p) == p.nan \/ p.v <= 0

\* Variant: a buy signal acts whatever the position.
BuyBranch_AnyPosition(s, pos) == s = 1

\* sig == 1 and position == 0
BuyBranch(s, pos) == s = 1 /\ pos = Zero

\* Variant: a sell signal acts whatever the position.
SellBranch_AnyPosition(s, pos) == s = -1

\* sig == -1 and position > 0
SellBranch(s, pos) == s = -1 /\ FPos(pos)

\* Variant: the signal is filled at the open of its own bar.
FillBar_SameBar(k) == k

\* The bar whose open fills a signal of bar k.
FillBar(k) == k + 1

InLoop == pc = "loop" /\ i < n - 1

Init ==
    /\ n \in 1..MaxBars
    /\ volume \in VolumeColumns(n)
    /\ signal = <<>>
    /\ open = <<>>
    /\ lastclose = None
    /\ i = 0
    /\ sig = None
    /\ price = None
    /\ cash = <<InitialCash, 1>>
    /\ position = Zero
    /\ trades = <<>>
    /\ pc = "loop"
    /\ result = None
    /\ bars = <<>> /\ bars2 = <<>> /\ ind = <<>> /\ ind2 = <<>>
    /\ step = "idle"

\* Lines 17-23 with a valid price.
BuyFill ==
    /\ InLoop
    /\ \E row \in Rows, p \in OpenCells :
         LET s == SignalOf(row, volume, i) IN
         /\ BuyBranch(s, position)
         /\ ~InvalidPrice(p)
         /\ sig' = s
         /\ signal' = Append(signal, s)
         /\ price' = p
         /\ open' = (FillBar(i) :> p) @@ open
         /\ position' = FDiv(cash, p.v)
         /\ cash' = Zero
         /\ trades' = Append(trades, <<"buy", Index(FillBar(i)), p.v>>)
    /\ i' = i + 1
    /\ UNCHANGED <<n, volume, lastclose, pc, result>>
    /\ UNCHANGED indVars

\* Lines 17-20: the price is missing or not positive: continue.
BuySkip ==
    /\ InLoop
    /\ \E row \in Rows, p \in OpenCells :
         LET s == SignalOf(row, volume, i) IN
         /\ BuyBranch(s, position)
         /\ InvalidPrice(p)
         /\ sig' = s
         /\ signal' = Append(signal, s)
         /\ price' = p
         /\ open' = (FillBar(i) :> p) @@ open
    /\ i' = i + 1
    /\ UNCHANGED <<n, volume, lastclose, cash, position, trades, pc, result>>
    /\ UNCHANGED indVars

\* Lines 24-30 with a valid price.
SellFill ==
    /\ InLoop
    /\ \E row \in Rows, p \in OpenCells :
         LET s == SignalOf(row, volume, i) IN
         /\ ~BuyBranch(s, position)
         /\ SellBranch(s, position)
         /\ ~InvalidPrice(p)
         /\ sig' = s
         /\ signal' = Append(signal, s)
         /\ price' = p
         /\ open' = (FillBar(i) :> p) @@ open
         /\ cash' = FMul(position, p.v)
         /\ position' = Zero
         /\ trades' = Append(trades, <<"sell", Index(FillBar(i)), p.v>>)
    /\ i' = i + 1
    /\ UNCHANGED <<n, volume, lastclose, pc, result>>
    /\ UNCHANGED indVars

\* Lines 24-27: the price is missing or not positive: continue.
SellSkip ==
    /\ InLoop
    /\ \E row \in Rows, p \in OpenCells :
         LET s == SignalOf(row, volume, i) IN
         /\ ~BuyBranch(s, position)
         /\ SellBranch(s, position)
         /\ InvalidPrice(p)
         /\ sig' = s
         /\ signal' = Append(signal, s)
         /\ price' = p
         /\ open' = (FillBar(i) :> p) @@ open
    /\ i' = i + 1
    /\ UNCHANGED <<n, volume, lastclose, cash, position, trades, pc, result>>
    /\ UNCHANGED indVars

\* Neither branch of the if/elif applies: the body does nothing.
NoBranch ==
    /\ InLoop
    /\ \E row \in Rows :
         LET s == SignalOf(row, volume, i) IN
         /\ ~BuyBranch(s, position)
         /\ ~SellBranch(s, position)
         /\ sig' = s
         /\ signal' = Append(signal, s)
    /\ i' = i + 1
    /\ UNCHANGED <<n, volume, open, lastclose, price, cash, position, trades,
                   pc, result>>
    /\ UNCHANGED indVars

(***************************************************************************)
(* Lines 31-45: valuation, win rate and the returned record.               *)
(***************************************************************************)
\* cash + (position * close[-1] if position else 0.0)
FinalValue(c, pos, close) ==
    FAdd(c, IF pos # Zero THEN FMul(pos, close) ELSE Zero)

\* The j of range(0, len(trades)-1, 2), 0-based.
PairStarts(tr) == {j \in 0..(Len(tr) - 2) : j % 2 = 0}

\* Variant: an exit at the entry price counts as a win.
IsWin_NotStrict(tr, j) ==
    /\ tr[j + 1][1] = "buy"
    /\ tr[j + 2][1] = "sell"
    /\ tr[j + 2][3] >= tr[j + 1][3]

\* Lines 35-38 for one j.
IsWin(tr, j) ==
    /\ tr[j + 1][1] = "buy"
    /\ tr[j + 2][1] = "sell"
    /\ tr[j + 2][3] > tr[j + 1][3]

Wins(tr) == Cardinality({j \in PairStarts(tr) : IsWin(tr, j)})

\* Variants: the rate as a percentage; the rate per trade instead of per pair.
WinRate_Percent(w, nt) == IF nt >= 2 THEN Frac(200 * w, nt) ELSE <<0, 1>>
WinRate_PerTrade(w, nt) == IF nt >= 2 THEN Frac(w, nt) ELSE <<0, 1>>

\* (wins / (n_trades/2)) if n_trades >= 2 else 0.0
WinRate(w, nt) == IF nt >= 2 THEN Frac(2 * w, nt) ELSE Zero

\* trades[:10]
Sample(tr) == SubSeq(tr, 1, IF Len(tr) < SampleSize THEN Len(tr) ELSE SampleSize)

Finish ==
    /\ pc = "loop"
    /\ i >= n - 1
    /\ \E row \in Rows :
         /\ signal' = Append(signal, SignalOf(row, volume, n - 1))
         /\ lastclose' = row.close
         /\ result' = [final_portfolio_value |-> FinalValue(cash, position, row.close),
                       n_trades |-> Len(trades),
                       win_rate |-> WinRate(Wins(trades), Len(trades)),
                       trades_sample |-> Sample(trades)]
    /\ pc' = "done"
    /\ UNCHANGED <<n, volume, open, i, sig, price, cash, position, trades>>
    /\ UNCHANGED indVars

Next == BuyFill \/ BuySkip \/ SellFill \/ SellSkip \/ NoBranch \/ Finish

Spec == Init /\ [][Next]_vars

(***************************************************************************)
(* Properties of safe_backtest (checked under Spec).                       *)
(***************************************************************************)
Returned == pc = "done"

\* The signal of bar k (0-based), once derived.
Sig(k) == signal[k + 1]

\* open[k] was read by the pass and is a positive number.
GoodOpen(k) == k \in DOMAIN open /\ ~open[k].nan /\ open[k].v > 0

\* open[k] was read by the pass and is missing or not positive.
BadOpen(k) == k \in DOMAIN open /\ (open[k].nan \/ open[k].v <= 0)

IsFlat == position[1] = 0
IsLong == position[1] > 0

\* Exactly one buy signal, at bar b, exactly one sell signal, at bar s, and
\* no other signal in the whole column.
OneRoundTrip(b, s) ==
    /\ Len(signal) = n
    /\ b < s
    /\ Sig(b) = 1
    /\ Sig(s) = -1
    /\ \A k \in 0..(n - 1) : k \notin {b, s} => Sig(k) = 0

\* final_portfolio_value == (100000 / p1) * p2 and the win rate of one trip.
RoundTripValue(p1, p2) ==
    /\ result.final_portfolio_value[1] * p1
         = InitialCash * p2 * result.final_portfolio_value[2]
    /\ result.win_rate = IF p2 > p1 THEN <<1, 1>> ELSE <<0, 1>>

\* C1, as stated: a single round trip with the buy signal at bar b and the
\* sell signal at any later bar s, the last bar included, returns two trades,
\* (100000 / open[b+1]) * open[s+1] and a win rate of 1.0 or 0.0.
C1_AnySellBar ==
    Returned =>
      \A b \in 0..(n - 1), s \in 0..(n - 1) :
        (/\ OneRoundTrip(b, s)
         /\ GoodOpen(b + 1)
         /\ (s + 1 <= n - 1 => GoodOpen(s + 1)))
        => /\ result.n_trades = 2
           /\ s + 1 <= n - 1
           /\ RoundTripValue(open[b + 1].v, open[s + 1].v)

\* C1, amended: the same for a sell signal at a bar s <= N-2, so that the
\* bar s+1 whose open fills it exists, both fill prices being positive.
C1_RoundTrip ==
    Returned =>
      \A b \in 0..(n - 2), s \in 0..(n - 2) :
        (OneRoundTrip(b, s) /\ GoodOpen(b + 1) /\ GoodOpen(s + 1))
        => /\ result.n_trades = 2
           /\ RoundTripValue(open[b + 1].v, open[s + 1].v)

\* A winning round trip, sold before the last bar, has been returned.
C1_Witness ==
    /\ Returned
    /\ \E b \in 0..(n - 2), s \in 0..(n - 2) :
         /\ OneRoundTrip(b, s) /\ GoodOpen(b + 1) /\ GoodOpen(s + 1)
         /\ open[s + 1].v > open[b + 1].v
         /\ result.n_trades = 2
         /\ s < n - 2

\* One iteration of the loop body, for bar i.
LoopStep == pc = "loop" /\ pc' = "loop" /\ i' = i + 1

\* A cell of the open column that is missing or not positive.
BadCell(c) == c.nan \/ c.v <= 0

\* C2: a qualifying signal whose next-bar open is missing or not positive
\* appends no trade and leaves cash, position and the trade log as they
\* were; and a step appends a trade only for the qualifying signal of its
\* own bar, filled at the positive open of the next bar (no retry later).
C2_InvalidFillSkip ==
    [][LoopStep =>
         LET s == signal'[i + 1]
             qualifies == (s = 1 /\ IsFlat) \/ (s = -1 /\ IsLong)
         IN  /\ qualifies => (i + 1) \in DOMAIN open'
             /\ (qualifies /\ BadCell(open'[i + 1]))
                  => (cash' = cash /\ position' = position /\ trades' = trades)
             /\ (trades' # trades) => (qualifies /\ ~BadCell(open'[i + 1]))
      ]_vars

\* A qualifying sell signal met a missing open while long, after a fill.
C2_Witness ==
    /\ pc = "loop"
    /\ i >= 1
    /\ Sig(i - 1) = -1
    /\ IsLong
    /\ i \in DOMAIN open /\ open[i].nan
    /\ Len(trades) = 1

\* C3: the returned win rate lies in [0, 1].
C3_WinRateRange ==
    Returned =>
      /\ result.win_rate[2] > 0
      /\ result.win_rate[1] >= 0
      /\ result.win_rate[1] <= result.win_rate[2]

\* Returned with an unmatched trailing buy after a winning round trip.
C3_Witness ==
    /\ Returned
    /\ result.n_trades = 3
    /\ trades[2][3] > trades[1][3]
    /\ result.win_rate = <<2, 3>>

\* The number of positional pairs (trade 2k, trade 2k+1) whose second price
\* strictly exceeds the first.
PairWins == Cardinality({k \in 0..((Len(trades) \div 2) - 1) :
                            trades[2 * k + 2][3] > trades[2 * k + 1][3]})

\* C5: n_trades counts every trade; win_rate == wins / (n_trades/2) over the
\* positional pairs when n_trades >= 2, and 0.0 when n_trades is 0 or 1.
C5_WinRate ==
    Returned =>
      /\ result.n_trades = Len(trades)
      /\ result.win_rate[2] > 0
      /\ IF result.n_trades >= 2
         THEN result.win_rate[1] * result.n_trades = 2 * PairWins * result.win_rate[2]
         ELSE result.win_rate[1] = 0

\* Two pairs, one won and one lost.
C5_Witness ==
    /\ Returned
    /\ result.n_trades = 4
    /\ PairWins = 1
    /\ result.win_rate = <<1, 2>>

\* C6: every trade is triggered by the signal of a bar t <= N-2 and carries
\* the timestamp and the open of bar t+1; timestamps increase strictly.
C6_NextBarFill ==
    /\ \A k \in 1..Len(trades) :
         LET t == trades[k][2] - 1 IN
         /\ 0 <= t /\ t <= n - 2
         /\ t < i
         /\ Sig(t) = (IF trades[k][1] = "buy" THEN 1 ELSE -1)
         /\ GoodOpen(t + 1)
         /\ trades[k][3] = open[t + 1].v
    /\ \A k \in 1..(Len(trades) - 1) : trades[k][2] < trades[k + 1][2]

\* A trade filled at the open of the last bar, the last bar carrying a signal.
C6_Witness ==
    /\ Returned
    /\ n >= 3
    /\ Len(trades) >= 2
    /\ trades[Len(trades)][2] = n - 1
    /\ Sig(n - 1) # 0

\* C7: with every signal 0, or with every open the pass read missing or not
\* positive, nothing is traded and the value stays at the initial cash.
C7_Degenerate ==
    (/\ Returned
     /\ \/ \A k \in 0..(n - 1) : Sig(k) = 0
        \/ \A k \in DOMAIN open : BadOpen(k))
      => /\ result.n_trades = 0
         /\ result.win_rate = <<0, 1>>
         /\ result.trades_sample = <<>>
         /\ result.final_portfolio_value = <<InitialCash, 1>>

\* Signals qualified at several bars, every open read was invalid.
C7_Witness ==
    /\ Returned
    /\ Cardinality(DOMAIN open) >= 2
    /\ \A k \in DOMAIN open : BadOpen(k)
    /\ result.n_trades = 0
    /\ lastclose # 1

\* C9: the log alternates buy, sell, ... from a buy, its length is odd
\* exactly while long, and a buy signal while long or a sell signal while
\* flat changes neither the log nor cash nor position.
Alternates ==
    /\ \A k \in 1..Len(trades) :
         trades[k][1] = (IF k % 2 = 1 THEN "buy" ELSE "sell")
    /\ (Len(trades) % 2 = 1) <=> IsLong
    /\ Returned => (result.n_trades % 2 = 1 <=> IsLong)

C9_Alternation ==
    /\ []Alternates
    /\ [][(LoopStep /\ ((signal'[i + 1] = 1 /\ IsLong)
                         \/ (signal'[i + 1] = -1 /\ IsFlat)))
            => (cash' = cash /\ position' = position /\ trades' = trades)]_vars

\* A buy signal arrived while long, between a buy and a later sell and buy.
C9_Witness ==
    /\ Len(trades) = 3
    /\ \E k \in 0..(i - 1) :
         /\ Sig(k) = 1
         /\ trades[1][2] <= k
         /\ k + 1 < trades[2][2]

\* C10: cash and position are never negative and exactly one is non-zero.
C10_Portfolio ==
    /\ cash[2] > 0 /\ position[2] > 0
    /\ cash[1] >= 0 /\ position[1] >= 0
    /\ (position[1] = 0 /\ cash[1] > 0) \/ (cash[1] = 0 /\ position[1] > 0)

\* Invested a second time: the second buy divided the proceeds of a sell.
C10_Witness ==
    /\ Len(trades) = 3
    /\ cash[1] = 0
    /\ position[1] > 0
    /\ position # <<InitialCash, trades[1][3]>>

(***************************************************************************)
(* Part II: indicators.py.                                                 *)
(*                                                                         *)
(* A float64 of the indicator engine is modelled in fixed point: the       *)
(* number x is the integer x * Scale, and a division rounds down to a      *)
(* multiple of 1/Scale (float64 rounds too, to 53 bits).  A column is a    *)
(* sequence of cells, each NaN or Num(x * Scale).                          *)
(***************************************************************************)
Scale == 1000

\* Lengths of the frames tried: a tail of 1..MaxTail free bars, alone or
\* after a fixed run of PadLen bars (long enough for the RSI to leave its
\* short-series branch).
MaxTail == 3
PadLen == 13

\* Parameters the code passes.
RsiLength == 14
NeutralRsi == 50
MacdFast == 12
MacdSlow == 26
MacdSignal == 9
EmaShort == 10
EmaLong == 100
AtrWindow == 14

Fx(x) == x * Scale
Abs(x) == IF x < 0 THEN -x ELSE x
Max(a, b) == IF a >= b THEN a ELSE b
Min(a, b) == IF a <= b THEN a ELSE b

\* df[f].astype(float)
Column(frame, f) == [t \in 1..Len(frame) |-> Fx(frame[t][f])]
Cells(x) == [t \in 1..Len(x) |-> Num(x[t])]

RECURSIVE CumSumUpTo(_, _)
CumSumUpTo(x, len) ==
    IF len = 0 THEN <<>>
    ELSE LET prev == CumSumUpTo(x, len - 1)
         IN  Append(prev, x[len] + (IF len = 1 THEN 0 ELSE prev[len - 1]))
\* Series.cumsum()
CumSum(x) == CumSumUpTo(x, Len(x))

RECURSIVE EwmUpTo(_, _, _, _)
\* Series.ewm(alpha=a/b, adjust=False).mean():
\* y[0] = x[0], y[t] = (1 - alpha) * y[t-1] + alpha * x[t].
EwmUpTo(x, a, b, len) ==
    IF len = 0 THEN <<>>
    ELSE IF len = 1 THEN <<x[1]>>
    ELSE LET prev == EwmUpTo(x, a, b, len - 1)
         IN  Append(prev, ((b - a) * prev[len - 1] + a * x[len]) \div b)

\* ema: ewm(span=span, adjust=False).mean(), alpha = 2 / (span + 1)
ema(series, span) == EwmUpTo(series, 2, span + 1, Len(series))

\* macd: the line, its signal line and the histogram
macd(frame) ==
    LET close == Column(frame, "close")
        ema_fast == ema(close, MacdFast)
        ema_slow == ema(close, MacdSlow)
        macd_line == [t \in 1..Len(close) |-> ema_fast[t] - ema_slow[t]]
        macd_signal == ema(macd_line, MacdSignal)
    IN  [line |-> macd_line,
         signal |-> macd_signal,
         hist |-> [t \in 1..Len(close) |-> macd_line[t] - macd_signal[t]]]

\* compute_rsi
compute_rsi(close, length) ==
    IF Len(close) < length + 1
    THEN [t \in 1..Len(close) |-> Num(Fx(NeutralRsi))]
    ELSE
    LET delta(t) == close[t] - close[t - 1]      \* close.diff(), NaN at bar 0
        up == [t \in 1..Len(close) |-> IF t = 1 THEN 0 ELSE Max(delta(t), 0)]
        down == [t \in 1..Len(close) |-> IF t = 1 THEN 0 ELSE -Min(delta(t), 0)]
        roll_up == EwmUpTo(up, 1, length, Len(close))
        roll_down == EwmUpTo(down, 1, length, Len(close))
        \* roll_up / roll_down.replace(0, NaN)
        rs(t) == IF roll_down[t] = 0 THEN NaN
                 ELSE Num((roll_up[t] * Scale) \div roll_down[t])
        \* 100 - (100 / (1 + rs))
        rsi(t) == IF rs(t).nan THEN NaN
                  ELSE Num(Fx(100) - (Fx(100) * Scale) \div (Scale + rs(t).v))
    IN  [t \in 1..Len(close) |-> IF rsi(t).nan THEN Num(Fx(NeutralRsi)) ELSE rsi(t)]

RECURSIVE FFillUpTo(_, _)
FFillUpTo(s, len) ==
    IF len = 0 THEN <<>>
    ELSE LET prev == FFillUpTo(s, len - 1)
         IN  Append(prev, IF s[len].nan /\ len > 1 THEN prev[len - 1] ELSE s[len])
\* fillna(method='ffill'): a missing cell takes the last value before it
ffill(s) == FFillUpTo(s, Len(s))

RECURSIVE BFillFrom(_, _)
BFillFrom(s, k) ==
    IF k > Len(s) THEN <<>>
    ELSE LET rest == BFillFrom(s, k + 1)
         IN  <<IF s[k].nan /\ k < Len(s) THEN rest[1] ELSE s[k]>> \o rest
\* Variant: the backward fill is left out.
bfill_LeftOut(s) == s

\* fillna(method='bfill'): a missing cell takes the next value after it
bfill(s) == BFillFrom(s, 1)

\* compute_vwap
compute_vwap(frame) ==
    LET typical == [t \in 1..Len(frame) |->
                      Fx(frame[t].high + frame[t].low + frame[t].close) \div 3]
        tpv == [t \in 1..Len(frame) |-> typical[t] * frame[t].volume]
        cumtpv == CumSum(tpv)
        cumvol == CumSum([t \in 1..Len(frame) |-> frame[t].volume])
        \* tpv.cumsum() / df['volume'].cumsum().replace(0, np.nan)
        vwap == [t \in 1..Len(frame) |->
                   IF cumvol[t] = 0 THEN NaN ELSE Num(cumtpv[t] \div cumvol[t])]
    IN  bfill(ffill(vwap))

\* Lines 46-47: OBV
compute_obv(frame) ==
    LET close == Column(frame, "close")
        \* (close.diff().fillna(0) > 0).astype(int) * 2 - 1
        sign(t) == IF t > 1 /\ close[t] - close[t - 1] > 0 THEN 1 ELSE -1
    IN  CumSum([t \in 1..Len(frame) |-> sign(t) * Fx(frame[t].volume)])

\* Lines 48-52: TR, the row-wise maximum that skips the NaN of bar 0
compute_tr(frame) ==
    [t \in 1..Len(frame) |->
        LET hl == Fx(frame[t].high - frame[t].low)
        IN  IF t = 1 THEN hl
            ELSE Max(hl, Max(Abs(Fx(frame[t].high - frame[t - 1].close)),
                             Abs(Fx(frame[t].low - frame[t - 1].close))))]

RECURSIVE SumRange(_, _, _)
SumRange(x, lo, hi) == IF lo > hi THEN 0 ELSE x[hi] + SumRange(x, lo, hi - 1)

\* Variant: the window is centred on the bar (rolling(..., center=True)).
rolling_mean_Centred(x, window) ==
    [t \in 1..Len(x) |->
        LET lo == Max(1, t - (window \div 2))
            hi == Min(Len(x), t + (window - 1) \div 2)
        IN  SumRange(x, lo, hi) \div (hi - lo + 1)]

\* Series.rolling(window=window, min_periods=1).mean()
rolling_mean(x, window) ==
    [t \in 1..Len(x) |->
        LET lo == Max(1, t - window + 1)
        IN  SumRange(x, lo, t) \div (t - lo + 1)]

(***************************************************************************)
(* Input frames of the indicator engine.                                   *)
(***************************************************************************)
IndCloses == {1, 2}
IndVolumes == {0, 1}
BarSet == {[high |-> c + 1, low |-> c, close |-> c, volume |-> v] :
              c \in IndCloses, v \in IndVolumes}

\* The fixed leading run: the close alternates; no volume (quiet) or one
\* unit per bar (busy).
Pad(v) == [t \in 1..PadLen |->
             [high |-> 2 + (t % 2), low |-> 1 + (t % 2), close |-> 1 + (t % 2),
              volume |-> v]]
Pads == {<<>>, Pad(0), Pad(1)}

RECURSIVE Tails(_)
Tails(k) == IF k = 0 THEN {<<>>}
            ELSE {Append(s, b) : s \in Tails(k - 1), b \in BarSet}

Frames == {p \o s : p \in Pads, s \in UNION {Tails(k) : k \in 1..MaxTail}}

\* The frames that differ from frame in at most one of its last MaxTail bars.
\* Any two frames of Frames with the same leading run and the same length are
\* joined by a chain of such one-bar changes.
Variants(frame) ==
    {[frame EXCEPT ![u] = b] :
        u \in Max(1, Len(frame) - MaxTail + 1)..Len(frame), b \in BarSet}

BacktestIdle ==
    /\ n = 0 /\ volume = <<>> /\ signal = <<>> /\ open = <<>>
    /\ lastclose = None /\ i = 0 /\ sig = None /\ price = None
    /\ cash = Zero /\ position = Zero /\ trades = <<>>
    /\ pc = "idle" /\ result = None

InitInd ==
    /\ BacktestIdle
    /\ bars \in Frames
    /\ bars2 \in Variants(bars)
    /\ ind = <<>>
    /\ ind2 = <<>>
    /\ step = "rsi"

\* df[name] = column, on both frames
Attach(cols, cols2, next) ==
    /\ ind' = cols @@ ind
    /\ ind2' = cols2 @@ ind2
    /\ step' = next
    /\ UNCHANGED <<bars, bars2>>
    /\ UNCHANGED btVars

RsiColumn(frame) == "RSI" :> compute_rsi(Column(frame, "close"), RsiLength)

MacdColumns(frame) ==
    LET m == macd(frame)
    IN  ("MACD" :> Cells(m.line)) @@ ("MACD_signal" :> Cells(m.signal))
        @@ ("MACD_hist" :> Cells(m.hist))

EmaColumns(frame) ==
    ("EMA_10" :> Cells(ema(Column(frame, "close"), EmaShort)))
    @@ ("EMA_100" :> Cells(ema(Column(frame, "close"), EmaLong)))

VwapColumn(frame) == "VWAP" :> compute_vwap(frame)

ObvColumn(frame) == "OBV" :> Cells(compute_obv(frame))

TrColumn(frame) == "TR" :> Cells(compute_tr(frame))

\* df['TR'].rolling(window=14, min_periods=1).mean()
AtrColumn(tr) ==
    "ATR_14" :> Cells(rolling_mean([t \in 1..Len(tr) |-> tr[t].v], AtrWindow))

\* Line 38
SetRSI == step = "rsi" /\ Attach(RsiColumn(bars), RsiColumn(bars2), "macd")
\* Lines 39-42
SetMACD == step = "macd" /\ Attach(MacdColumns(bars), MacdColumns(bars2), "ema")
\* Lines 43-44
SetEMA == step = "ema" /\ Attach(EmaColumns(bars), EmaColumns(bars2), "vwap")
\* Line 45
SetVWAP == step = "vwap" /\ Attach(VwapColumn(bars), VwapColumn(bars2), "obv")
\* Lines 46-47
SetOBV == step = "obv" /\ Attach(ObvColumn(bars), ObvColumn(bars2), "tr")
\* Lines 48-52
SetTR == step = "tr" /\ Attach(TrColumn(bars), TrColumn(bars2), "atr")
\* Line 53
SetATR == step = "atr" /\ Attach(AtrColumn(ind["TR"]), AtrColumn(ind2["TR"]), "return")

\* Line 54: df.replace([inf, -inf], nan).  No cell is an infinity here: the
\* only divisions by a possibly zero column replace the zero by NaN first,
\* so the replacement leaves every cell as it is.
ReplaceInf(column) == [t \in 1..Len(column) |-> column[t]]

\* Lines 54-55
Return ==
    /\ step = "return"
    /\ ind' = [c \in DOMAIN ind |-> ReplaceInf(ind[c])]
    /\ ind2' = [c \in DOMAIN ind2 |-> ReplaceInf(ind2[c])]
    /\ step' = "done"
    /\ UNCHANGED <<bars, bars2>>
    /\ UNCHANGED btVars

NextInd == SetRSI \/ SetMACD \/ SetEMA \/ SetVWAP \/ SetOBV \/ SetTR \/ SetATR \/ Return

SpecInd == InitInd /\ [][NextInd]_vars

(***************************************************************************)
(* Properties of the indicator engine (checked under SpecInd).             *)
(***************************************************************************)
IndicatorNames == {"RSI", "MACD", "MACD_signal", "MACD_hist", "EMA_10",
                   "EMA_100", "VWAP", "OBV", "TR", "ATR_14"}

\* The two frames agree on bars 0..t-1 (the first t bars).
AgreeOnFirst(t) == \A u \in 1..t : bars[u] = bars2[u]

\* Some bar among the first t has a positive volume.
TradedInFirst(t) == \E u \in 1..t : bars[u].volume > 0

\* Column c, once attached, has at each bar a value fixed by the bars up to it.
Causal(c) ==
    (c \in DOMAIN ind /\ c \in DOMAIN ind2) =>
      \A t \in 1..Len(bars) : AgreeOnFirst(t) => ind[c][t] = ind2[c][t]

\* C4, as stated: no indicator column looks ahead, also when leading bars
\* have zero volume.
C4_NoLookAhead == \A c \in IndicatorNames : Causal(c)

\* C4, amended: every column but VWAP is fixed at bar t by bars 0..t, and so
\* is VWAP at every bar t with a positive volume somewhere in bars 0..t (the
\* VWAP of leading zero-volume bars is filled backward from a later bar).
C4_NoLookAheadButBackFill ==
    /\ \A c \in IndicatorNames \ {"VWAP"} : Causal(c)
    /\ ("VWAP" \in DOMAIN ind /\ "VWAP" \in DOMAIN ind2) =>
         \A t \in 1..Len(bars) :
           (AgreeOnFirst(t) /\ TradedInFirst(t)) => ind["VWAP"][t] = ind2["VWAP"][t]

\* Two long frames that part at their last bar: every column is attached,
\* the last RSI and ATR differ, the RSI before is off its neutral value.
C4_Witness ==
    /\ step = "done"
    /\ Len(bars) > RsiLength + 1
    /\ AgreeOnFirst(Len(bars) - 1)
    /\ TradedInFirst(Len(bars) - 1)
    /\ ind["RSI"][Len(bars)] # ind2["RSI"][Len(bars)]
    /\ ind["ATR_14"][Len(bars)] # ind2["ATR_14"][Len(bars)]
    /\ ind["VWAP"][Len(bars)] # ind2["VWAP"][Len(bars)]
    /\ ind["RSI"][Len(bars) - 1] # Num(Fx(NeutralRsi))

\* C8, as stated: VWAP is defined at every bar of every frame with
\* volume >= 0, the frame whose bars all have zero volume included.
C8_VwapAlwaysDefined ==
    "VWAP" \in DOMAIN ind => \A t \in 1..Len(bars) : ~ind["VWAP"][t].nan

\* C8, amended: VWAP is defined at every bar of every frame in which some
\* bar has a positive volume; it is missing at every bar of a frame whose
\* bars all have zero volume.
C8_VwapDefinedIfTraded ==
    "VWAP" \in DOMAIN ind =>
      IF TradedInFirst(Len(bars))
      THEN \A t \in 1..Len(bars) : ~ind["VWAP"][t].nan
      ELSE \A t \in 1..Len(bars) : ind["VWAP"][t].nan

\* A long run of zero-volume bars, then a traded bar: the VWAP of bar 0 is
\* the VWAP of the traded bar.
C8_Witness ==
    /\ "VWAP" \in DOMAIN ind
    /\ Len(bars) > PadLen
    /\ ~TradedInFirst(Len(bars) - 1)
    /\ bars[Len(bars)].volume > 0
    /\ ~ind["VWAP"][1].nan
    /\ ind["VWAP"][1] = ind["VWAP"][Len(bars)]

=============================================================================
